---- MODULE Spec2Model ----
(***************************************************************************)
(* A model of src/utils/router.ts of claude-code-router: the per-request   *)
(* router middleware (credential overlay on the shared provider objects,   *)
(* session id parsing, prompt rewrite, custom router, built-in rules),     *)
(* collectProviderTargets and getUseModel.                                 *)
(*                                                                         *)
(* JavaScript values are records [t, v]: t is the typeof-like tag and v    *)
(* the characters of a string (empty for the other tags).  A string is a   *)
(* sequence of characters; the multi-character literals the code searches  *)
(* for are single atoms of the alphabet (they hold one '<' or no ',' and   *)
(* cannot overlap each other).                                             *)
(***************************************************************************)
EXTENDS Integers, Sequences, FiniteSets, TLC

VARIABLES
  config,      \* context.config: Providers, providers, Router, paths
  objs,        \* the heap of provider objects the two lists refer to
  objs0,       \* history: the heap as the configuration was loaded
  calls,       \* one record per router call (its request and position)
  passOrder,   \* history: call ids in the order their overlay pass ran
  service,     \* server.providerService: the providers it holds, its updates
  usageCache,  \* sessionUsageCache: the sessions it holds a usage for
  targetsOut,  \* result of collectProviderTargets (specification SpecTargets)
  sel          \* input and result of getUseModel (specification SpecModel)

vars == <<config, objs, objs0, calls, passOrder, service, usageCache, targetsOut, sel>>

---------------------------------------------------------------------------
\* Bounds of the model.

NumObjs == 3
MaxEntries == 3
MaxCalls == 2

---------------------------------------------------------------------------
\* JavaScript values.

Undefined == [t |-> "undefined", v |-> <<>>]
Null == [t |-> "null", v |-> <<>>]
Str(s) == [t |-> "string", v |-> s]
\* a truthy value that is not a string (an object, a number other than 0)
NonString == [t |-> "object", v |-> <<>>]

Truthy(x) == \/ x.t = "object"
             \/ x.t = "string" /\ x.v # <<>>

\* a ?? b
Coalesce(a, b) == IF a.t \in {"undefined", "null"} THEN b ELSE a

SeqsUpTo(S, n) == UNION {[1..k -> S] : k \in 0..n}

\* String.prototype.toLowerCase, character by character
ToLowerChar(c) == CASE c = "A" -> "a"
                    [] c = "B" -> "b"
                    [] c = "G" -> "g"
                    [] OTHER -> c
ToLower(s) == [i \in 1..Len(s) |-> ToLowerChar(s[i])]

---------------------------------------------------------------------------
\* The provider heap and the configuration.

Obj == 1..NumObjs
\* a list entry that is null (provider?.name is undefined)
NullRef == 0
\* config.Providers / config.providers that is absent or not an array
NotArray == <<-1>>

NameOf(heap, ref) == IF ref = NullRef THEN Undefined ELSE heap[ref].name

\* registerProviders' callback (lines 80-97): one entry against the map, kept
\* as the sequence of its values in insertion order
MutRegisterOne(heap, map, ref) ==
  IF ~Truthy(NameOf(heap, ref)) THEN map
  ELSE IF \E i \in 1..Len(map) : map[i].name = heap[ref].name
       THEN [i \in 1..Len(map) |->
               IF map[i].name = heap[ref].name
               THEN [map[i] EXCEPT !.references = Append(@, ref)]
               ELSE map[i]]
       ELSE Append(map, [name |-> heap[ref].name,
                         references |-> <<ref>>,
                         primary |-> ref])

RegisterOne(heap, map, ref) ==
  IF ~Truthy(NameOf(heap, ref)) THEN map
  ELSE IF \E i \in 1..Len(map) : map[i].name = heap[ref].name
       THEN [i \in 1..Len(map) |->
               IF map[i].name = heap[ref].name
                  /\ ~(\E k \in 1..Len(map[i].references) :
                          map[i].references[k] = ref)
               THEN [map[i] EXCEPT !.references = Append(@, ref)]
               ELSE map[i]]
       ELSE Append(map, [name |-> heap[ref].name,
                         references |-> <<ref>>,
                         primary |-> ref])

RECURSIVE RegisterFrom(_, _, _, _)
RegisterFrom(heap, map, providers, i) ==
  IF i > Len(providers) THEN map
  ELSE RegisterFrom(heap, RegisterOne(heap, map, providers[i]), providers, i + 1)

\* registerProviders (lines 75-98)
registerProviders(heap, map, providers) ==
  IF providers = NotArray THEN map
  ELSE RegisterFrom(heap, map, providers, 1)

\* collectProviderTargets (lines 72-104)
collectProviderTargets(cfg, heap) ==
  registerProviders(heap,
                    registerProviders(heap, <<>>, cfg.Providers),
                    cfg.providers)

---------------------------------------------------------------------------
\* Strings.

StartsWith(s, prefix) ==
  /\ Len(s) >= Len(prefix)
  /\ SubSeq(s, 1, Len(prefix)) = prefix

\* position of the first occurrence of pat in s at or after from; 0 if none
IndexFrom(s, pat, from) ==
  LET hits == {i \in from..(Len(s) - Len(pat) + 1) :
                 SubSeq(s, i, i + Len(pat) - 1) = pat}
  IN IF hits = {} THEN 0 ELSE CHOOSE i \in hits : \A j \in hits : i <= j

Includes(s, pat) == IndexFrom(s, pat, 1) # 0

\* String.prototype.replace(pattern: string, replacement): first occurrence only
ReplaceFirst(s, pat, repl) ==
  LET i == IndexFrom(s, pat, 1)
  IN IF i = 0 THEN s
     ELSE SubSeq(s, 1, i - 1) \o repl \o SubSeq(s, i + Len(pat), Len(s))

\* String.prototype.split(sep) for a non-empty separator
RECURSIVE SplitFrom(_, _, _)
SplitFrom(s, sep, from) ==
  LET i == IndexFrom(s, sep, from)
  IN IF i = 0 THEN <<SubSeq(s, from, Len(s))>>
     ELSE <<SubSeq(s, from, i - 1)>> \o SplitFrom(s, sep, i + Len(sep))
Split(s, sep) == SplitFrom(s, sep, 1)

\* the literals of the code, one atom each
Comma == <<",">>
HaikuPrefix == <<"H">>       \* "claude-3-5-haiku"
OpenTag == <<"O">>           \* "<CCR-SUBAGENT-MODEL>"
CloseTag == <<"C">>          \* "</CCR-SUBAGENT-MODEL>"
WebSearchPrefix == <<"W">>   \* "web_search"

---------------------------------------------------------------------------
\* getUseModel (lines 106-178).  The result is [threw, model, system]: the
\* value returned (or that the call raised) and req.body.system afterwards.

DefaultLongContextThreshold == 60000
LastUsageTokenFloor == 20000

Returned(m, system) == [threw |-> FALSE, model |-> m, system |-> system]
Raised(system) == [threw |-> TRUE, model |-> Undefined, system |-> system]

\* config.Providers.find(p => p.name.toLowerCase() === provider), lines 114-116:
\* the index of the first match, 0 for none, -1 when the callback raises on an
\* entry it reaches (a null entry or one whose name is no string)
RECURSIVE FindProviderFrom(_, _, _, _)
FindProviderFrom(heap, providers, provider, i) ==
  IF i > Len(providers) THEN 0
  ELSE IF NameOf(heap, providers[i]).t # "string" THEN -1
  ELSE IF ToLower(NameOf(heap, providers[i]).v) = provider THEN i
  ELSE FindProviderFrom(heap, providers, provider, i + 1)

\* finalProvider?.models?.find(m => m.toLowerCase() === model), lines 117-119
FindModel(models, model) ==
  LET hits == {i \in 1..Len(models) : ToLower(models[i]) = model}
  IN IF hits = {} THEN Undefined
     ELSE Str(models[CHOOSE i \in hits : \A j \in hits : i <= j])

\* lines 112-124
CompoundSelector(body, cfg, heap) ==
  LET parts == Split(body.model.v, Comma)
      provider == parts[1]
      model == parts[2]
  IN IF cfg.Providers = NotArray THEN Raised(body.system)
     ELSE LET i == FindProviderFrom(heap, cfg.Providers, provider, 1)
          IN IF i = -1 THEN Raised(body.system)
             ELSE IF i = 0 THEN Returned(body.model, body.system)
             ELSE LET finalProvider == heap[cfg.Providers[i]]
                      finalModel == FindModel(finalProvider.models, model)
                  IN IF Truthy(finalModel)
                     THEN Returned(Str(finalProvider.name.v \o Comma \o finalModel.v),
                                   body.system)
                     ELSE Returned(body.model, body.system)

\* lines 127-132
LongContextThreshold(cfg) ==
  IF cfg.Router.longContextThreshold = 0
  THEN DefaultLongContextThreshold
  ELSE cfg.Router.longContextThreshold

\* the comparisons of lines 130-132 with >= for >
MutLongContextInclusive(cfg, tokenCount, lastUsage) ==
  \/ /\ lastUsage.present
     /\ lastUsage.input_tokens >= LongContextThreshold(cfg)
     /\ tokenCount >= LastUsageTokenFloor
  \/ tokenCount >= LongContextThreshold(cfg)

LongContextTriggered(cfg, tokenCount, lastUsage) ==
  \/ /\ lastUsage.present
     /\ lastUsage.input_tokens > LongContextThreshold(cfg)
     /\ tokenCount > LastUsageTokenFloor
  \/ tokenCount > LongContextThreshold(cfg)

\* lines 142-145
HasDirective(system) ==
  /\ system.kind = "array"
  /\ Len(system.segs) > 1
  /\ system.segs[2].text.t = "string"
  /\ StartsWith(system.segs[2].text.v, OpenTag)

\* text.match(/<CCR-SUBAGENT-MODEL>(.*?)<\/CCR-SUBAGENT-MODEL>/s), lines 146-148:
\* [found, id]; the leftmost opening tag that a closing tag follows, and the
\* shortest text up to a closing tag
MatchDirective(text) ==
  LET opens == {i \in 1..Len(text) :
                  /\ SubSeq(text, i, i + Len(OpenTag) - 1) = OpenTag
                  /\ IndexFrom(text, CloseTag, i + Len(OpenTag)) # 0}
  IN IF opens = {} THEN [found |-> FALSE, id |-> <<>>]
     ELSE LET o == CHOOSE i \in opens : \A j \in opens : i <= j
              c == IndexFrom(text, CloseTag, o + Len(OpenTag))
          IN [found |-> TRUE, id |-> SubSeq(text, o + Len(OpenTag), c - 1)]

\* lines 150-153
\* the replace of lines 150-153 removing up to the last closing tag
MutStripGreedy(system, id) ==
  LET text == system.segs[2].text.v
      last == CHOOSE i \in 1..Len(text) :
                /\ SubSeq(text, i, i + Len(CloseTag) - 1) = CloseTag
                /\ \A j \in (i + 1)..Len(text) :
                     SubSeq(text, j, j + Len(CloseTag) - 1) # CloseTag
  IN [system EXCEPT !.segs[2].text = Str(SubSeq(text, last + Len(CloseTag), Len(text)))]

StripDirective(system, id) ==
  [system EXCEPT !.segs[2].text =
     Str(ReplaceFirst(@.v, OpenTag \o id \o CloseTag, <<>>))]

\* line 172
HasWebSearchTool(tools) ==
  /\ tools.isArray
  /\ \E i \in 1..Len(tools.items) :
       /\ tools.items[i].type.t = "string"
       /\ StartsWith(tools.items[i].type.v, WebSearchPrefix)

\* lines 157-177
LaterRules(body, cfg) ==
  IF StartsWith(body.model.v, HaikuPrefix) /\ Truthy(cfg.Router.background)
  THEN Returned(cfg.Router.background, body.system)
  ELSE IF body.thinking /\ Truthy(cfg.Router.think)
  THEN Returned(cfg.Router.think, body.system)
  ELSE IF HasWebSearchTool(body.tools) /\ Truthy(cfg.Router.webSearch)
  THEN Returned(cfg.Router.webSearch, body.system)
  ELSE Returned(cfg.Router.default, body.system)

\* getUseModel with the thinking rule tried before the long-context rule
MutThinkingFirst(body, tokenCount, cfg, heap, lastUsage) ==
  IF body.model.t # "string" THEN Raised(body.system)
  ELSE IF Includes(body.model.v, Comma) THEN CompoundSelector(body, cfg, heap)
  ELSE IF body.thinking /\ Truthy(cfg.Router.think)
  THEN Returned(cfg.Router.think, body.system)
  ELSE IF LongContextTriggered(cfg, tokenCount, lastUsage)
          /\ Truthy(cfg.Router.longContext)
  THEN Returned(cfg.Router.longContext, body.system)
  ELSE IF HasDirective(body.system)
          /\ MatchDirective(body.system.segs[2].text.v).found
  THEN LET id == MatchDirective(body.system.segs[2].text.v).id
       IN Returned(Str(id), StripDirective(body.system, id))
  ELSE LaterRules(body, cfg)

getUseModel(body, tokenCount, cfg, heap, lastUsage) ==
  IF body.model.t # "string" THEN Raised(body.system)
  ELSE IF Includes(body.model.v, Comma) THEN CompoundSelector(body, cfg, heap)
  ELSE IF LongContextTriggered(cfg, tokenCount, lastUsage)
          /\ Truthy(cfg.Router.longContext)
  THEN Returned(cfg.Router.longContext, body.system)
  ELSE IF HasDirective(body.system)
          /\ MatchDirective(body.system.segs[2].text.v).found
  THEN LET id == MatchDirective(body.system.segs[2].text.v).id
       IN Returned(Str(id), StripDirective(body.system, id))
  ELSE LaterRules(body, cfg)

---------------------------------------------------------------------------
\* calculateTokenCount (lines 12-64).  enc.encode is the tokenizer library: a
\* text of a message or a tool is held as the number of tokens it encodes to,
\* a system text (which the router reads and rewrites) as its characters, one
\* token each.

EncodedLength(text) == Len(text)

\* tokenCount += ... over the elements of a forEach
RECURSIVE Sum(_)
Sum(counts) == IF counts = <<>> THEN 0 ELSE Head(counts) + Sum(Tail(counts))

\* lines 24-34
PartTokens(part) ==
  IF part.type \in {"text", "tool_use", "tool_result"} THEN part.tokens ELSE 0

\* lines 20-36
MessageTokens(message) ==
  IF message.kind = "string" THEN message.tokens
  ELSE IF message.kind = "parts"
  THEN Sum([i \in 1..Len(message.parts) |-> PartTokens(message.parts[i])])
  ELSE 0

\* lines 43-50
SegmentTokens(item) ==
  IF item.type # "text" THEN 0
  ELSE IF item.text.t = "string" THEN EncodedLength(item.text.v)
  ELSE 0

\* lines 39-52
SystemTokens(system) ==
  IF system.kind = "string" THEN EncodedLength(system.str)
  ELSE IF system.kind = "array"
  THEN Sum([i \in 1..Len(system.segs) |-> SegmentTokens(system.segs[i])])
  ELSE 0

\* lines 55-60
ToolTokens(tool) == tool.descriptionTokens + tool.schemaTokens

calculateTokenCount(messages, system, tools) ==
  Sum([i \in 1..Len(messages) |-> MessageTokens(messages[i])])
  + SystemTokens(system)
  + (IF tools.isArray
     THEN Sum([i \in 1..Len(tools.items) |-> ToolTokens(tools.items[i])])
     ELSE 0)

---------------------------------------------------------------------------
\* The credential overlay of router (lines 183-247).

\* String.prototype.trim
RECURSIVE TrimStart(_)
TrimStart(s) == IF s # <<>> /\ Head(s) = " " THEN TrimStart(Tail(s)) ELSE s
RECURSIVE TrimEnd(_)
TrimEnd(s) ==
  IF s # <<>> /\ s[Len(s)] = " " THEN TrimEnd(SubSeq(s, 1, Len(s) - 1)) ELSE s
Trim(s) == TrimEnd(TrimStart(s))

\* lines 186-187
TokenOf(bearerToken) ==
  IF bearerToken.t = "string" THEN Trim(bearerToken.v) ELSE <<>>

\* lines 199-202
MutSnapshotAlways(o) ==
  [o EXCEPT !.static_api_key = Coalesce(o.api_key, Coalesce(o.apiKey, Null))]

SnapshotStatic(o) ==
  IF o.static_api_key.t = "undefined"
  THEN [o EXCEPT !.static_api_key = Coalesce(o.api_key, Coalesce(o.apiKey, Null))]
  ELSE o

\* lines 204-206
EnsureStack(o) ==
  IF o.dynamic_api_key_stack.isArray THEN o
  ELSE [o EXCEPT !.dynamic_api_key_stack = [isArray |-> TRUE, entries |-> <<>>]]

\* lines 208-210
CurrentKey(o) ==
  LET stack == o.dynamic_api_key_stack.entries
      activeKey == IF stack = <<>> THEN Undefined ELSE stack[Len(stack)].newKey
  IN Coalesce(activeKey, Coalesce(o.api_key, Coalesce(o.apiKey, Null)))

\* line 216
MutPushReplaces(heap, primary, requestId, token) ==
  [heap EXCEPT ![primary].dynamic_api_key_stack.entries =
     <<[requestId |-> requestId, newKey |-> Str(token)]>>]

PushEntry(heap, primary, requestId, token) ==
  [heap EXCEPT ![primary].dynamic_api_key_stack.entries =
     Append(@, [requestId |-> requestId, newKey |-> Str(token)])]

\* lines 218-221
MutWritePrimaryOnly(heap, references, token) ==
  [o \in DOMAIN heap |->
     IF references # <<>> /\ o = references[1]
     THEN [heap[o] EXCEPT !.api_key = Str(token), !.apiKey = Str(token)]
     ELSE heap[o]]

MutWriteOneSpelling(heap, references, token) ==
  [o \in DOMAIN heap |->
     IF \E k \in 1..Len(references) : references[k] = o
     THEN [heap[o] EXCEPT !.api_key = Str(token)]
     ELSE heap[o]]

WriteReferences(heap, references, token) ==
  [o \in DOMAIN heap |->
     IF \E k \in 1..Len(references) : references[k] = o
     THEN [heap[o] EXCEPT !.api_key = Str(token), !.apiKey = Str(token)]
     ELSE heap[o]]

\* lines 223-232
NotifyService(svc, name, token) ==
  IF svc.present /\ name \in svc.known
  THEN [svc EXCEPT !.updates = Append(@, [name |-> name, apiKey |-> Str(token)])]
  ELSE svc

\* the forEach callback, lines 193-238, on [heap, service, overrides]
MutAlwaysPush(st, target, token, requestId) ==
  LET primary == target.primary
      heap1 == [st.heap EXCEPT ![primary] = EnsureStack(SnapshotStatic(@))]
  IN [heap |-> WriteReferences(PushEntry(heap1, primary, requestId, token),
                               target.references, token),
      service |-> NotifyService(st.service, target.name, token),
      overrides |-> Append(st.overrides,
                           [target |-> target, requestId |-> requestId])]

OverlayTarget(st, target, token, requestId) ==
  LET primary == target.primary
      heap1 == [st.heap EXCEPT ![primary] = EnsureStack(SnapshotStatic(@))]
  IN IF CurrentKey(heap1[primary]) = Str(token)
     THEN [st EXCEPT !.heap = heap1]
     ELSE [heap |-> WriteReferences(PushEntry(heap1, primary, requestId, token),
                                    target.references, token),
           service |-> NotifyService(st.service, target.name, token),
           overrides |-> Append(st.overrides,
                                [target |-> target, requestId |-> requestId])]

RECURSIVE OverlayFrom(_, _, _, _, _)
OverlayFrom(st, targets, token, requestId, i) ==
  IF i > Len(targets) THEN st
  ELSE OverlayFrom(OverlayTarget(st, targets[i], token, requestId),
                   targets, token, requestId, i + 1)

\* lines 183-247 with the Symbol of line 190 created once for all calls
MutSharedRequestId(heap, svc, cfg, bearerToken, requestId) ==
  LET providerTargets == collectProviderTargets(cfg, heap)
      st0 == [heap |-> heap, service |-> svc, overrides |-> <<>>]
  IN IF Truthy(bearerToken) /\ Len(providerTargets) > 0
        /\ TokenOf(bearerToken) # <<>>
     THEN OverlayFrom(st0, providerTargets, TokenOf(bearerToken), 1, 1)
     ELSE st0

\* lines 183-247: the heap, the service and the overrides after the pass
OverlayPass(heap, svc, cfg, bearerToken, requestId) ==
  LET providerTargets == collectProviderTargets(cfg, heap)
      st0 == [heap |-> heap, service |-> svc, overrides |-> <<>>]
  IN IF Truthy(bearerToken) /\ Len(providerTargets) > 0
        /\ TokenOf(bearerToken) # <<>>
     THEN OverlayFrom(st0, providerTargets, TokenOf(bearerToken), requestId, 1)
     ELSE st0

---------------------------------------------------------------------------
\* router (lines 180-290), one record per call.  A call runs from one
\* suspension point to the next in a single step: the awaits are readFile
\* (line 258), customRouter (line 274) and getUseModel (line 282).

Call == 1..MaxCalls

SessionDelimiter == <<"_", "s", "_">>   \* "_session_"
EnvMarker == <<"E">>                    \* "<env>"

NoUsage == [present |-> FALSE, input_tokens |-> 0]

IdleCall ==
  [pc |-> "idle",
   bearerToken |-> Undefined,
   body |-> [model |-> Undefined,
             system |-> [kind |-> "absent", str |-> <<>>, segs |-> <<>>],
             thinking |-> FALSE,
             tools |-> [isArray |-> FALSE, items |-> <<>>],
             messages |-> <<>>,
             user_id |-> Undefined],
   \* history: req.body as the request arrived
   received |-> [model |-> Undefined,
                 system |-> [kind |-> "absent", str |-> <<>>, segs |-> <<>>],
                 thinking |-> FALSE,
                 tools |-> [isArray |-> FALSE, items |-> <<>>],
                 messages |-> <<>>,
                 user_id |-> Undefined],
   sessionId |-> Undefined,
   dynamicApiKeyOverrides |-> <<>>,
   tokenCount |-> -1,
   \* the local model of line 269: what the custom router resolved with
   model |-> Undefined,
   lastMessageUsage |-> NoUsage,
   pending |-> Raised([kind |-> "absent", str |-> <<>>, segs |-> <<>>]),
   log |-> {}]

\* lines 249-254
SessionIdOf(req) ==
  IF Truthy(req.body.user_id)
  THEN LET parts == Split(req.body.user_id.v, SessionDelimiter)
       IN IF Len(parts) > 1 THEN Str(parts[2]) ELSE req.sessionId
  ELSE req.sessionId

\* sessionUsageCache.get, line 255
CacheGet(cache, sessionId) ==
  IF \E u \in cache : u.sessionId = sessionId
  THEN LET u == CHOOSE u \in cache : u.sessionId = sessionId
       IN [present |-> TRUE, input_tokens |-> u.input_tokens]
  ELSE NoUsage

\* line 257
WantsRewrite(cfg, system) ==
  /\ cfg.REWRITE_SYSTEM_PROMPT
  /\ system.kind = "array"
  /\ Len(system.segs) > 1
  /\ system.segs[2].text.t = "string"
  /\ Includes(system.segs[2].text.v, EnvMarker)

\* line 259
RewriteSystem(system, prompt) ==
  LET parts == Split(system.segs[2].text.v, EnvMarker)
  IN [system EXCEPT !.segs[2].text = Str(prompt \o EnvMarker \o parts[Len(parts)])]

\* req.log.error of line 278, with e.message of require or of the custom router
LoadFailure == "failed to load custom router: cannot find module"
RouterFailure == "failed to load custom router: raised by the custom router"
\* req.log.error of line 286
MiddlewareFailure == "Error in router middleware"

\* line 282 up to the await: getUseModel runs to its return, or raises
CallGetUseModel(req, cfg, heap) ==
  LET r == getUseModel(req.body, req.tokenCount, cfg, heap, req.lastMessageUsage)
  IN [req EXCEPT !.pc = "getUseModel", !.pending = r, !.body.system = r.system]

\* lines 263-283 up to the first await: the calls a request can be left as;
\* require (line 272) loads the custom router or raises
EnterTry(req, cfg, heap) ==
  LET counted == [req EXCEPT !.tokenCount =
                    calculateTokenCount(req.body.messages, req.body.system,
                                        req.body.tools)]
  IN IF cfg.CUSTOM_ROUTER_PATH
     THEN {[counted EXCEPT !.pc = "customRouter"],
           CallGetUseModel([counted EXCEPT !.log = @ \cup {LoadFailure}], cfg, heap)}
     ELSE {CallGetUseModel(counted, cfg, heap)}

\* lines 180-257: the overlay pass, the session id, the cache lookup
Prelude(req, c, pass) ==
  LET withOverrides == [req EXCEPT !.dynamicApiKeyOverrides = pass.overrides]
      withSession == [withOverrides EXCEPT !.sessionId = SessionIdOf(withOverrides)]
  IN [withSession EXCEPT !.lastMessageUsage = CacheGet(usageCache, withSession.sessionId)]

\* the c-th call to arrive, with request req, runs to its first await
RouterCall(c, req) ==
  /\ calls[c].pc = "idle"
  /\ \A d \in 1..(c - 1) : calls[d].pc # "idle"
  /\ LET pass == OverlayPass(objs, service, config, req.bearerToken, c)
         started == Prelude(req, c, pass)
     IN /\ objs' = pass.heap
        /\ service' = pass.service
        /\ passOrder' = Append(passOrder, c)
        /\ IF WantsRewrite(config, started.body.system)
           THEN calls' = [calls EXCEPT ![c] = [started EXCEPT !.pc = "readFile"]]
           ELSE \E next \in EnterTry(started, config, objs) :
                  calls' = [calls EXCEPT ![c] = next]
  /\ UNCHANGED <<config, objs0, usageCache, targetsOut, sel>>

\* readFile resolves with the file's text (lines 258-259), and the call runs on
ReadFileResolves(c, prompt) ==
  /\ calls[c].pc = "readFile"
  /\ LET rewritten == [calls[c] EXCEPT
                         !.body.system = RewriteSystem(@, prompt)]
     IN \E next \in EnterTry(rewritten, config, objs) :
          calls' = [calls EXCEPT ![c] = next]
  /\ UNCHANGED <<config, objs, objs0, passOrder, service, usageCache, targetsOut, sel>>

\* readFile rejects: line 258 is outside the try, the rejection leaves router
ReadFileRejects(c) ==
  /\ calls[c].pc = "readFile"
  /\ calls' = [calls EXCEPT ![c].pc = "rejected"]
  /\ UNCHANGED <<config, objs, objs0, passOrder, service, usageCache, targetsOut, sel>>

\* lines 274-284 with getUseModel evaluated whatever the custom router yields
MutBuiltinAlways(c, model) ==
  /\ calls[c].pc = "customRouter"
  /\ IF Truthy(model)
     THEN calls' = [calls EXCEPT ![c] =
                      [CallGetUseModel([@ EXCEPT !.model = model], config, objs)
                         EXCEPT !.pc = "done", !.body.model = model]]
     ELSE calls' = [calls EXCEPT ![c] =
                      CallGetUseModel([@ EXCEPT !.model = model], config, objs)]
  /\ UNCHANGED <<config, objs, objs0, passOrder, service, usageCache, targetsOut, sel>>

\* the custom router yields model (lines 274-284)
CustomRouterReturns(c, model) ==
  /\ calls[c].pc = "customRouter"
  /\ IF Truthy(model)
     THEN calls' = [calls EXCEPT ![c].pc = "done", ![c].model = model,
                                 ![c].body.model = model]
     ELSE calls' = [calls EXCEPT ![c] =
                      CallGetUseModel([@ EXCEPT !.model = model], config, objs)]
  /\ UNCHANGED <<config, objs, objs0, passOrder, service, usageCache, targetsOut, sel>>

\* the custom router raises (lines 277-279)
CustomRouterRaises(c) ==
  /\ calls[c].pc = "customRouter"
  /\ calls' = [calls EXCEPT ![c] =
                 CallGetUseModel([@ EXCEPT !.log = @ \cup {RouterFailure}], config, objs)]
  /\ UNCHANGED <<config, objs, objs0, passOrder, service, usageCache, targetsOut, sel>>

\* the catch of lines 285-288 taking the call's overrides back off the stacks
MutRollbackOnRaise(c) ==
  /\ calls[c].pc = "getUseModel"
  /\ IF calls[c].pending.threw
     THEN /\ calls' = [calls EXCEPT ![c].pc = "done",
                                    ![c].log = @ \cup {MiddlewareFailure},
                                    ![c].body.model = config.Router.default]
          /\ objs' = [o \in DOMAIN objs |->
                        [objs[o] EXCEPT !.dynamic_api_key_stack.entries =
                           SelectSeq(@, LAMBDA e : e.requestId # c)]]
     ELSE /\ calls' = [calls EXCEPT ![c].pc = "done",
                                    ![c].body.model = calls[c].pending.model]
          /\ objs' = objs
  /\ UNCHANGED <<config, objs0, passOrder, service, usageCache, targetsOut, sel>>

\* the await of line 282 resumes: line 284, or the catch of lines 285-288
ModelResolved(c) ==
  /\ calls[c].pc = "getUseModel"
  /\ IF calls[c].pending.threw
     THEN calls' = [calls EXCEPT ![c].pc = "done",
                                 ![c].log = @ \cup {MiddlewareFailure},
                                 ![c].body.model = config.Router.default]
     ELSE calls' = [calls EXCEPT ![c].pc = "done",
                                 ![c].body.model = calls[c].pending.model]
  /\ UNCHANGED <<config, objs, objs0, passOrder, service, usageCache, targetsOut, sel>>

---------------------------------------------------------------------------
\* Values of the state shared by the specifications.

NoSystem == [kind |-> "absent", str |-> <<>>, segs |-> <<>>]
NoTools == [isArray |-> FALSE, items |-> <<>>]

Provider(name, api_key, apiKey, models) ==
  [name |-> name, api_key |-> api_key, apiKey |-> apiKey,
   static_api_key |-> Undefined,
   dynamic_api_key_stack |-> [isArray |-> FALSE, entries |-> <<>>],
   models |-> models]

RouterPolicy(default, background, think, webSearch, longContext, threshold) ==
  [default |-> default, background |-> background, think |-> think,
   webSearch |-> webSearch, longContext |-> longContext,
   longContextThreshold |-> threshold]

PlainPolicy ==
  RouterPolicy(Str(<<"d">>), Undefined, Undefined, Undefined, Undefined, 0)

Config(Providers, providers, Router, rewrite, custom) ==
  [Providers |-> Providers, providers |-> providers, Router |-> Router,
   REWRITE_SYSTEM_PROMPT |-> rewrite, CUSTOM_ROUTER_PATH |-> custom]

NoService == [present |-> FALSE, known |-> {}, updates |-> <<>>]
NoSelection == [done |-> FALSE, body |-> IdleCall.body, tokenCount |-> 0,
                lastUsage |-> NoUsage, out |-> Raised(NoSystem)]
NoTargets == [done |-> FALSE, targets |-> <<>>]

\* the pairs of lists with at most n entries in all, a list possibly absent
ListPairs(refs, n) ==
  UNION {({NotArray} \cup [1..k -> refs]) \X ({NotArray} \cup [1..m -> refs]) :
           <<k, m>> \in {km \in (0..n) \X (0..n) : km[1] + km[2] <= n}}

---------------------------------------------------------------------------
\* SpecTargets: collectProviderTargets on every configuration of at most
\* MaxEntries entries over NumObjs provider objects.

\* a name, the same name in another case, and the empty name
TargetNames == {Str(<<"a">>), Str(<<"A">>), Str(<<>>)}

InitTargets ==
  /\ objs \in [Obj -> {Provider(n, Undefined, Undefined, <<>>) : n \in TargetNames}]
  /\ \E pair \in ListPairs(Obj \cup {NullRef}, MaxEntries) :
       config = Config(pair[1], pair[2], PlainPolicy, FALSE, FALSE)
  /\ objs0 = objs
  /\ calls = [c \in Call |-> IdleCall]
  /\ passOrder = <<>>
  /\ service = NoService
  /\ usageCache = {}
  /\ targetsOut = NoTargets
  /\ sel = NoSelection

CollectTargets ==
  /\ ~targetsOut.done
  /\ targetsOut' = [done |-> TRUE, targets |-> collectProviderTargets(config, objs)]
  /\ UNCHANGED <<config, objs, objs0, calls, passOrder, service, usageCache, sel>>

NextTargets == CollectTargets

SpecTargets == InitTargets /\ [][NextTargets]_vars

\* the entries of the two lists in the order the code visits them
Entries(cfg) ==
  (IF cfg.Providers = NotArray THEN <<>> ELSE cfg.Providers)
  \o (IF cfg.providers = NotArray THEN <<>> ELSE cfg.providers)

NamedAt(cfg, heap, i) == Truthy(NameOf(heap, Entries(cfg)[i]))

\* the position of the first entry named n
FirstSeen(cfg, heap, n) ==
  CHOOSE i \in 1..Len(Entries(cfg)) :
    /\ NameOf(heap, Entries(cfg)[i]) = n
    /\ \A j \in 1..(i - 1) : NameOf(heap, Entries(cfg)[j]) # n

\* C10: collectProviderTargets yields exactly one target per distinct provider
\* name of the two lists, in first-seen order with Providers first; a target's
\* references are the named entries of that name, each object once; its primary
\* is the first-seen entry and a member of references; no target is empty.
C10_Targets ==
  targetsOut.done =>
    LET ts == targetsOut.targets
        es == Entries(config)
        names == {NameOf(objs, es[i]) : i \in {k \in 1..Len(es) : NamedAt(config, objs, k)}}
    IN /\ {ts[i].name : i \in 1..Len(ts)} = names
       /\ Len(ts) = Cardinality(names)
       /\ \A i, j \in 1..Len(ts) :
            i < j => FirstSeen(config, objs, ts[i].name) < FirstSeen(config, objs, ts[j].name)
       /\ \A i \in 1..Len(ts) :
            LET refs == ts[i].references
            IN /\ {refs[k] : k \in 1..Len(refs)}
                    = {es[k] : k \in {m \in 1..Len(es) : NameOf(objs, es[m]) = ts[i].name}}
               /\ \A k, m \in 1..Len(refs) : k # m => refs[k] # refs[m]
               /\ ts[i].primary = es[FirstSeen(config, objs, ts[i].name)]
               /\ \E k \in 1..Len(refs) : refs[k] = ts[i].primary
               /\ Len(refs) > 0

\* a name declared in both lists by two objects, and one object listed twice
C10_Witness ==
  /\ targetsOut.done
  /\ config.Providers # NotArray /\ config.providers # NotArray
  /\ Len(targetsOut.targets) = 1
  /\ Len(targetsOut.targets[1].references) = 2
  /\ Len(Entries(config)) = 3
  /\ \E i \in 1..Len(config.Providers) : \E j \in 1..Len(config.providers) :
       /\ config.Providers[i] # config.providers[j]
       /\ NamedAt(config, objs, i)
       /\ NameOf(objs, config.Providers[i]) = NameOf(objs, config.providers[j])

---------------------------------------------------------------------------
\* SpecModel: getUseModel on bounded requests and configurations, in four
\* families: compound selectors against provider lists, the long-context
\* numbers, the order of the rules, and the texts of the second system segment.

MaxText == 4

Segment(text) == [type |-> "text", text |-> text]
OneSegment == [kind |-> "array", str |-> <<>>, segs |-> <<Segment(Str(<<"s">>))>>]
TwoSegments(text) ==
  [kind |-> "array", str |-> <<>>, segs |-> <<Segment(Str(<<"s">>)), Segment(text)>>]

Tool(type) == [type |-> type, descriptionTokens |-> 0, schemaTokens |-> 0]
Tools(types) == [isArray |-> TRUE, items |-> [i \in 1..Len(types) |-> Tool(types[i])]]

Body(model, system, thinking, tools) ==
  [model |-> model, system |-> system, thinking |-> thinking, tools |-> tools,
   messages |-> <<>>, user_id |-> Undefined]

\* a directive naming model x followed by text, as the second segment
DirectiveSystem == TwoSegments(Str(<<"O", "x", "C", "y">>))

\* every rule's target configured, each a different model
FullPolicy(threshold) ==
  RouterPolicy(Str(<<"d">>), Str(<<"b">>), Str(<<"t">>), Str(<<"w">>),
               Str(<<"l">>), threshold)

SmallThreshold == DefaultLongContextThreshold \div 2

\* provider objects of the compound family: a lower-case provider with a
\* lower-case model, an upper-case one with an upper-case model, one without
\* models, one with both casings of the model
CompoundHeap ==
  [o \in Obj |->
     CASE o % 4 = 1 -> Provider(Str(<<"a">>), Undefined, Undefined, <<<<"g">>>>)
       [] o % 4 = 2 -> Provider(Str(<<"A">>), Undefined, Undefined, <<<<"G">>>>)
       [] o % 4 = 3 -> Provider(Str(<<"a">>), Undefined, Undefined, <<>>)
       [] OTHER -> Provider(Str(<<"A">>), Undefined, Undefined, <<<<"G">>, <<"g">>>>)]

CompoundModels ==
  {Str(p \o Comma \o m) : p \in {<<"a">>, <<"A">>, <<"b">>, <<"H">>}, m \in {<<"g">>, <<"G">>}}
  \cup {Str(<<"a", ",">>), Str(<<",", "g">>), Str(<<"a", ",", "g", ",", "g">>)}

PlainModels == {Str(<<"m">>), Str(<<"H">>), Str(<<"H", "m">>), Str(<<"m", "H">>)}

TokenCounts ==
  {0, LastUsageTokenFloor, LastUsageTokenFloor + 1,
   SmallThreshold - 1, SmallThreshold, SmallThreshold + 1,
   DefaultLongContextThreshold - 1, DefaultLongContextThreshold,
   DefaultLongContextThreshold + 1}

Usages ==
  {NoUsage} \cup
  {[present |-> TRUE, input_tokens |-> n] :
     n \in {SmallThreshold, SmallThreshold + 1,
            DefaultLongContextThreshold, DefaultLongContextThreshold + 1}}

Selection(body, tokenCount, lastUsage) ==
  [done |-> FALSE, body |-> body, tokenCount |-> tokenCount,
   lastUsage |-> lastUsage, out |-> Raised(NoSystem)]

InitCompound ==
  /\ objs = CompoundHeap
  /\ \E Providers \in SeqsUpTo(Obj \cup {NullRef}, MaxEntries) \cup {NotArray} :
     \E on \in BOOLEAN :
       config = Config(Providers, NotArray,
                       IF on THEN FullPolicy(0) ELSE PlainPolicy, FALSE, FALSE)
  /\ \E model \in CompoundModels : \E on \in BOOLEAN :
       sel = Selection(Body(model, IF on THEN DirectiveSystem ELSE NoSystem, on,
                            IF on THEN Tools(<<Str(WebSearchPrefix)>>) ELSE NoTools),
                       IF on THEN DefaultLongContextThreshold + 1 ELSE 0, NoUsage)

InitNumbers ==
  /\ objs = CompoundHeap
  /\ \E threshold \in {0, SmallThreshold} : \E longContext \in {Undefined, Str(<<"l">>)} :
       config = Config(<<1>>, NotArray,
                       [FullPolicy(threshold) EXCEPT !.longContext = longContext],
                       FALSE, FALSE)
  /\ \E tokenCount \in TokenCounts : \E lastUsage \in Usages : \E on \in BOOLEAN :
       sel = Selection(Body(Str(<<"m">>), IF on THEN DirectiveSystem ELSE NoSystem, on,
                            NoTools),
                       tokenCount, lastUsage)

InitRules ==
  /\ objs = CompoundHeap
  /\ \E default \in {Undefined, Str(<<"d">>)} :
     \E background, think, webSearch, longContext \in BOOLEAN :
       config = Config(<<1>>, NotArray,
                       RouterPolicy(default,
                                    IF background THEN Str(<<"b">>) ELSE Undefined,
                                    IF think THEN Str(<<"t">>) ELSE Str(<<>>),
                                    IF webSearch THEN Str(<<"w">>) ELSE Undefined,
                                    IF longContext THEN Str(<<"l">>) ELSE Undefined,
                                    0),
                       FALSE, FALSE)
  /\ \E model \in PlainModels :
     \E system \in {NoSystem, OneSegment, DirectiveSystem, TwoSegments(Str(<<"y">>)),
                    [kind |-> "string", str |-> <<"O", "x", "C">>, segs |-> <<>>]} :
     \E thinking \in BOOLEAN :
     \E tools \in {NoTools, Tools(<<Str(<<"o">>), Str(WebSearchPrefix \o <<"2">>)>>),
                   Tools(<<Undefined, Str(<<"o">> \o WebSearchPrefix)>>)} :
     \E tokenCount \in {0, DefaultLongContextThreshold + 1} :
       sel = Selection(Body(model, system, thinking, tools), tokenCount, NoUsage)

InitTexts ==
  /\ objs = CompoundHeap
  /\ \E longContext \in {Undefined, Str(<<"l">>)} :
       config = Config(<<1>>, NotArray,
                       [FullPolicy(0) EXCEPT !.longContext = longContext], FALSE, FALSE)
  /\ \E text \in SeqsUpTo({"O", "C", "x"}, MaxText) : \E thinking \in BOOLEAN :
     \E tokenCount \in {0, DefaultLongContextThreshold + 1} :
       sel = Selection(Body(Str(<<"m">>), TwoSegments(Str(text)), thinking, NoTools),
                       tokenCount, NoUsage)

InitModel ==
  /\ InitCompound \/ InitNumbers \/ InitRules \/ InitTexts
  /\ objs0 = objs
  /\ calls = [c \in Call |-> IdleCall]
  /\ passOrder = <<>>
  /\ service = NoService
  /\ usageCache = {}
  /\ targetsOut = NoTargets

Select ==
  /\ ~sel.done
  /\ sel' = [sel EXCEPT !.done = TRUE,
                        !.out = getUseModel(sel.body, sel.tokenCount, config, objs,
                                            sel.lastUsage)]
  /\ UNCHANGED <<config, objs, objs0, calls, passOrder, service, usageCache, targetsOut>>

NextModel == Select

SpecModel == InitModel /\ [][NextModel]_vars

\* the rules of the claim, stated on the request and the configuration
PlainRequest == sel.body.model.t = "string" /\ ~(\E i \in 1..Len(sel.body.model.v) : sel.body.model.v[i] = ",")

SecondSegmentText ==
  IF sel.body.system.kind = "array" /\ Len(sel.body.system.segs) >= 2
     /\ sel.body.system.segs[2].text.t = "string"
  THEN sel.body.system.segs[2].text.v
  ELSE <<>>

\* the second segment begins with the opening tag and a closing tag follows
DirectivePresent ==
  /\ SecondSegmentText # <<>>
  /\ SecondSegmentText[1] = "O"
  /\ \E j \in 2..Len(SecondSegmentText) : SecondSegmentText[j] = "C"

DirectiveModel ==
  LET j == CHOOSE j \in 2..Len(SecondSegmentText) :
             /\ SecondSegmentText[j] = "C"
             /\ \A k \in 2..(j - 1) : SecondSegmentText[k] # "C"
  IN Str(SubSeq(SecondSegmentText, 2, j - 1))

LongContextCondition ==
  LET threshold == IF config.Router.longContextThreshold = 0 THEN 60000
                   ELSE config.Router.longContextThreshold
  IN \/ sel.tokenCount > threshold
     \/ sel.lastUsage.present /\ sel.lastUsage.input_tokens > threshold
        /\ sel.tokenCount > 20000

RuleList ==
  <<[holds |-> LongContextCondition /\ Truthy(config.Router.longContext),
     model |-> config.Router.longContext],
    [holds |-> DirectivePresent,
     model |-> IF DirectivePresent THEN DirectiveModel ELSE Undefined],
    [holds |-> sel.body.model.v # <<>> /\ sel.body.model.v[1] = "H"
               /\ Truthy(config.Router.background),
     model |-> config.Router.background],
    [holds |-> sel.body.thinking /\ Truthy(config.Router.think),
     model |-> config.Router.think],
    [holds |-> HasWebSearchTool(sel.body.tools) /\ Truthy(config.Router.webSearch),
     model |-> config.Router.webSearch],
    [holds |-> TRUE, model |-> config.Router.default]>>

FirstRule == CHOOSE i \in 1..Len(RuleList) :
               RuleList[i].holds /\ \A j \in 1..(i - 1) : ~RuleList[j].holds

\* C1: for a requested model without ',', getUseModel returns the result of the
\* first rule, in the order long-context, subagent directive, background,
\* thinking, web-search, default, whose condition holds and whose target is
\* configured; a request over the long-context threshold that also carries a
\* thinking flag gets the long-context model.
C1_FirstRuleWins ==
  (sel.done /\ PlainRequest) =>
    /\ ~sel.out.threw
    /\ sel.out.model = RuleList[FirstRule].model
    /\ (LongContextCondition /\ Truthy(config.Router.longContext) /\ sel.body.thinking)
         => sel.out.model = config.Router.longContext

\* a request over the threshold with a thinking flag, a directive and a
\* web-search tool, every target configured: the long-context model is returned
C1_Witness ==
  /\ sel.done /\ PlainRequest
  /\ LongContextCondition /\ Truthy(config.Router.longContext)
  /\ sel.body.thinking /\ Truthy(config.Router.think)
  /\ DirectivePresent
  /\ config.Router.think # config.Router.longContext
  /\ sel.out.model = config.Router.longContext

\* the provider/model pairs of config.Providers that equal P and M when case
\* is ignored, as "name,model" in their stored casing
CanonicalSelectors(P, M) ==
  {Str(objs[config.Providers[i]].name.v \o <<",">> \o objs[config.Providers[i]].models[k]) :
     <<i, k>> \in {ik \in (1..Len(config.Providers)) \X (1..MaxEntries) :
                     /\ ToLower(objs[config.Providers[ik[1]]].name.v) = ToLower(P)
                     /\ ik[2] <= Len(objs[config.Providers[ik[1]]].models)
                     /\ ToLower(objs[config.Providers[ik[1]]].models[ik[2]]) = ToLower(M)}}

\* C2: for a requested model 'P,M' and a configuration with a provider whose
\* name equals P and a model of it that equals M, both ignoring case,
\* getUseModel returns '<provider.name>,<model>' in the stored casing.
C2_CanonicalCasing ==
  (/\ sel.done
   /\ sel.body.model.t = "string"
   /\ Len(Split(sel.body.model.v, <<",">>)) = 2
   /\ config.Providers # NotArray
   /\ \A i \in 1..Len(config.Providers) : config.Providers[i] # NullRef)
  => LET parts == Split(sel.body.model.v, <<",">>)
     IN CanonicalSelectors(parts[1], parts[2]) # {}
          => sel.out.model \in CanonicalSelectors(parts[1], parts[2])

\* C11: with a long-context model configured and a requested model without
\* ',', the long-context rule fires exactly when tokenCount > threshold, or a
\* prior session usage exists with input_tokens > threshold and tokenCount >
\* 20000, the threshold being the configured one (a configured 0 counts as none)
\* or 60000; 60001 fires with the default threshold, 59999 without prior usage
\* does not, and a request the rule does not fire on gets the first later rule.
C11_LongContextStrict ==
  (sel.done /\ PlainRequest /\ Truthy(config.Router.longContext)) =>
    /\ (sel.out.model = config.Router.longContext) <=> LongContextCondition
    /\ ~LongContextCondition =>
         /\ FirstRule > 1
         /\ sel.out.model = RuleList[FirstRule].model
    /\ (config.Router.longContextThreshold = 0 /\ sel.tokenCount = 60001)
         => sel.out.model = config.Router.longContext
    /\ (config.Router.longContextThreshold = 0 /\ sel.tokenCount = 59999
        /\ ~sel.lastUsage.present)
         => sel.out.model # config.Router.longContext

\* a request of 20001 tokens, under the threshold, whose session's last usage
\* was one token over the configured threshold: the long-context model
C11_Witness ==
  /\ sel.done /\ PlainRequest
  /\ config.Router.longContextThreshold = 30000
  /\ sel.tokenCount = 20001
  /\ sel.lastUsage.present /\ sel.lastUsage.input_tokens = 30001
  /\ sel.out.model = config.Router.longContext
  /\ Truthy(config.Router.longContext)

\* the text that follows the first closing tag of the second segment
DirectiveRest ==
  LET j == CHOOSE j \in 2..Len(SecondSegmentText) :
             /\ SecondSegmentText[j] = "C"
             /\ \A k \in 2..(j - 1) : SecondSegmentText[k] # "C"
  IN SubSeq(SecondSegmentText, j + 1, Len(SecondSegmentText))

EarlierRuleWins ==
  \/ ~PlainRequest
  \/ LongContextCondition /\ Truthy(config.Router.longContext)

\* C12: when the second system segment begins with the opening tag and a
\* closing tag follows, and neither a compound selector nor the long-context
\* rule applies, getUseModel returns the identifier between the opening tag and
\* the first closing tag, and the segment's text afterwards is the original with
\* that tag pair and identifier removed and the rest intact, the other segment
\* untouched; when an earlier rule wins, the system prompt is as it was.
C12_DirectiveStripped ==
  (sel.done /\ DirectivePresent) =>
    IF EarlierRuleWins
    THEN /\ sel.out.system = sel.body.system
         /\ PlainRequest => sel.out.model = config.Router.longContext
    ELSE /\ ~sel.out.threw
         /\ sel.out.model = DirectiveModel
         /\ sel.out.system.kind = "array"
         /\ Len(sel.out.system.segs) = Len(sel.body.system.segs)
         /\ sel.out.system.segs[1] = sel.body.system.segs[1]
         /\ sel.out.system.segs[2].type = sel.body.system.segs[2].type
         /\ sel.out.system.segs[2].text = Str(DirectiveRest)

\* a directive followed by text that holds a second closing tag: the model is
\* the identifier, the text left is what followed the first closing tag
C12_Witness ==
  /\ sel.done /\ DirectivePresent /\ ~EarlierRuleWins
  /\ DirectiveModel = Str(<<"x">>)
  /\ sel.out.model = Str(<<"x">>)
  /\ \E k \in 1..Len(DirectiveRest) : DirectiveRest[k] = "C"
  /\ sel.out.system.segs[2].text = Str(DirectiveRest)

\* the provider objects config.Providers lists
ListedProviders ==
  IF config.Providers = NotArray THEN {}
  ELSE {config.Providers[i] : i \in 1..Len(config.Providers)} \ {NullRef}

\* no listed provider has the name P and a model M, even when case is ignored
LookupFails(P, M) ==
  ~\E o \in ListedProviders :
     /\ objs[o].name.t = "string"
     /\ ToLower(objs[o].name.v) = ToLower(P)
     /\ \E k \in 1..Len(objs[o].models) : ToLower(objs[o].models[k]) = ToLower(M)

\* C15: when the requested model holds a ',' and no listed provider has the
\* named provider and model, getUseModel returns the requested string as it
\* came and no later rule applies, also when the long-context, directive,
\* background, thinking or web-search condition holds; the system prompt is
\* not changed.
C15_UnmatchedSelectorKept ==
  (/\ sel.done
   /\ sel.body.model.t = "string"
   /\ Len(Split(sel.body.model.v, <<",">>)) >= 2
   /\ LookupFails(Split(sel.body.model.v, <<",">>)[1], Split(sel.body.model.v, <<",">>)[2]))
  => /\ ~sel.out.threw
     /\ sel.out.model = sel.body.model
     /\ sel.out.system = sel.body.system

---------------------------------------------------------------------------
\* Spec: MaxCalls router calls that interleave at their awaits, on provider
\* objects shared by all of them.  Objects 1 and 2 are both named "a", the
\* others "b"; "k" and "j" are configured credentials, "t" and "u" the
\* tokens callers bring.

StaticKey == Str(<<"k">>)
OtherStaticKey == Str(<<"j">>)
TokenT == Str(<<"t">>)
TokenU == Str(<<"u">>)

\* [api_key, apiKey] of the first object: no credential, one spelling only, a
\* credential equal to a caller's token, and the two spellings differing
FirstCredentials ==
  {<<Undefined, Undefined>>, <<Undefined, StaticKey>>,
   <<TokenT, TokenT>>, <<TokenT, StaticKey>>}

OverlayHeap(first) ==
  [o \in Obj |->
     IF o = 1 THEN Provider(Str(<<"a">>), first[1], first[2], <<<<"g">>>>)
     ELSE IF o = 2 THEN Provider(Str(<<"a">>), OtherStaticKey, OtherStaticKey, <<<<"g">>>>)
     ELSE Provider(Str(<<"b">>), StaticKey, StaticKey, <<>>)]

\* one name declared in both lists by two objects; two names, one object
\* listed twice; the alternate list alone; no provider
OverlayLists ==
  {<<<<1>>, <<2>>>>, <<<<1, 3>>, <<2, 1>>>>, <<NotArray, <<2, 1>>>>, <<<<>>, NotArray>>}

KnownService == [present |-> TRUE, known |-> {Str(<<"a">>)}, updates |-> <<>>]

EnvSystem == TwoSegments(Str(<<"x", "E", "y">>))

Request(bearerToken, body) ==
  [IdleCall EXCEPT !.bearerToken = bearerToken, !.body = body, !.received = body]

\* no token, a blank one, two tokens, a token in blanks
BearerTokens == {Undefined, Str(<<" ">>), TokenT, TokenU, Str(<<" ", "t", " ">>)}

OverlayRequests ==
  {Request(b, Body(Str(<<"a", ",", "g">>), EnvSystem, FALSE, NoTools)) :
     b \in BearerTokens}

Init ==
  /\ \E first \in FirstCredentials : objs = OverlayHeap(first)
  /\ objs0 = objs
  /\ \E lists \in OverlayLists : \E rewrite \in BOOLEAN :
       /\ config = Config(lists[1], lists[2], PlainPolicy, rewrite, ~rewrite)
       /\ service = IF rewrite THEN NoService ELSE KnownService
  /\ calls = [c \in Call |-> IdleCall]
  /\ passOrder = <<>>
  /\ usageCache = {}
  /\ targetsOut = NoTargets
  /\ sel = NoSelection

Next ==
  \E c \in Call :
    \/ \E req \in OverlayRequests : RouterCall(c, req)
    \/ ReadFileResolves(c, <<"r">>)
    \/ ReadFileRejects(c)
    \/ CustomRouterReturns(c, Str(<<"c">>))
    \/ CustomRouterRaises(c)
    \/ ModelResolved(c)

Spec == Init /\ [][Next]_vars

---------------------------------------------------------------------------
\* Claims on the credential overlay.

ProviderTargets == collectProviderTargets(config, objs)
StackOf(o) == objs[o].dynamic_api_key_stack.entries
Ran(c) == calls[c].pc # "idle"
TokenOfCall(c) == Str(TokenOf(calls[c].bearerToken))
HasToken(c) == Ran(c) /\ TokenOf(calls[c].bearerToken) # <<>>

\* the entries call c pushed on o, and the overrides it recorded for a target
EntriesBy(o, c) == {k \in 1..Len(StackOf(o)) : StackOf(o)[k].requestId = c}
RecordedFor(c, name) ==
  {k \in 1..Len(calls[c].dynamicApiKeyOverrides) :
     /\ calls[c].dynamicApiKeyOverrides[k].target.name = name
     /\ calls[c].dynamicApiKeyOverrides[k].requestId = c}

OriginalKey(o) == IF objs0[o].api_key.t \in {"undefined", "null"}
                  THEN (IF objs0[o].apiKey.t \in {"undefined", "null"} THEN Null
                        ELSE objs0[o].apiKey)
                  ELSE objs0[o].api_key

\* the credential in effect on o when call c ran its overlay pass
EffectiveBefore(o, c) ==
  LET earlier == {k \in 1..Len(StackOf(o)) : StackOf(o)[k].requestId < c}
  IN IF earlier = {} THEN OriginalKey(o)
     ELSE StackOf(o)[CHOOSE k \in earlier : \A m \in earlier : m <= k].newKey

\* two calls in a row that bring the same token
SameTokenTwice(c) ==
  /\ c + 1 \in Call
  /\ HasToken(c) /\ HasToken(c + 1)
  /\ TokenOfCall(c) = TokenOfCall(c + 1)

\* C5 as stated: the same bearer token applied to the same provider target
\* twice in a row pushes exactly one entry on the provider's stack and records
\* exactly one dynamicApiKeyOverrides entry for the target.
C5_ExactlyOneEntry ==
  \A c \in Call : SameTokenTwice(c) =>
    \A i \in 1..Len(ProviderTargets) :
      LET t == ProviderTargets[i]
      IN /\ Cardinality(EntriesBy(t.primary, c) \cup EntriesBy(t.primary, c + 1)) = 1
         /\ Cardinality(RecordedFor(c, t.name)) + Cardinality(RecordedFor(c + 1, t.name)) = 1

\* C5 as amended: the same bearer token applied to the same provider target
\* twice in a row pushes and records at most one entry: exactly one when the
\* token differs from the credential in effect before the first application,
\* none when it equals it; the second application pushes and records nothing.
C5_AtMostOneEntry ==
  \A c \in Call : SameTokenTwice(c) =>
    \A i \in 1..Len(ProviderTargets) :
      LET t == ProviderTargets[i]
      IN /\ EntriesBy(t.primary, c + 1) = {}
         /\ RecordedFor(c + 1, t.name) = {}
         /\ Cardinality(EntriesBy(t.primary, c)) = Cardinality(RecordedFor(c, t.name))
         /\ Cardinality(EntriesBy(t.primary, c))
              = IF EffectiveBefore(t.primary, c) = TokenOfCall(c) THEN 0 ELSE 1

\* the same token came twice in a row: one entry of the first call, one
\* recorded override, nothing from the second
C5_Witness ==
  \E c \in Call :
    /\ SameTokenTwice(c)
    /\ \E i \in 1..Len(ProviderTargets) :
         /\ Cardinality(EntriesBy(ProviderTargets[i].primary, c)) = 1
         /\ Cardinality(RecordedFor(c, ProviderTargets[i].name)) = 1
         /\ EntriesBy(ProviderTargets[i].primary, c + 1) = {}
         /\ calls[c + 1].dynamicApiKeyOverrides = <<>>

\* C6: whenever a call pushes an entry for a target, every reference of the
\* target reports the call's token under api_key and under apiKey afterwards.
C6_AllReferencesGetToken ==
  [][\A i \in 1..Len(ProviderTargets) :
       LET t == ProviderTargets[i]
           before == objs[t.primary].dynamic_api_key_stack.entries
           after == objs'[t.primary].dynamic_api_key_stack.entries
       IN Len(after) > Len(before) =>
            /\ \E c \in Call : /\ calls[c].pc = "idle" /\ calls'[c].pc # "idle"
                               /\ after[Len(after)].newKey
                                    = Str(TokenOf(calls'[c].bearerToken))
            /\ \A k \in 1..Len(t.references) :
                 /\ objs'[t.references[k]].api_key = after[Len(after)].newKey
                 /\ objs'[t.references[k]].apiKey = after[Len(after)].newKey]_vars

\* a target of two objects whose second reference was configured with another
\* credential, after a push: both report the token under both spellings
C6_Witness ==
  \E i \in 1..Len(ProviderTargets) :
    LET t == ProviderTargets[i]
    IN /\ Len(t.references) = 2
       /\ StackOf(t.primary) # <<>>
       /\ \A k \in 1..2 :
            /\ objs[t.references[k]].api_key = StackOf(t.primary)[Len(StackOf(t.primary))].newKey
            /\ objs[t.references[k]].apiKey = StackOf(t.primary)[Len(StackOf(t.primary))].newKey
            /\ objs0[t.references[k]].api_key # objs[t.references[k]].api_key

\* C7: in every reachable state, for every provider whose override stack is
\* not empty, newKey of the top entry is the credential its api_key and apiKey
\* fields show.
C7_TopIsVisible ==
  \A o \in Obj :
    StackOf(o) # <<>> =>
      /\ objs[o].api_key = StackOf(o)[Len(StackOf(o))].newKey
      /\ objs[o].apiKey = StackOf(o)[Len(StackOf(o))].newKey

\* two calls pushed different tokens on a provider configured with one spelling
C7_Witness ==
  \E o \in Obj :
    /\ Len(StackOf(o)) = 2
    /\ StackOf(o)[1].newKey # StackOf(o)[2].newKey
    /\ objs0[o].api_key # objs0[o].apiKey
    /\ objs[o].apiKey = StackOf(o)[2].newKey

Position(c) == CHOOSE k \in 1..Len(passOrder) : passOrder[k] = c

\* C9: under every interleaving of the calls, a provider's stack holds the
\* pushes in the order the calls ran their overlay pass, one entry with the
\* call's token for each override a call recorded and no other, and the
\* credential every reference shows is the token of the last push.
C9_PushesSerialized ==
  \A i \in 1..Len(ProviderTargets) :
    LET t == ProviderTargets[i]
        stack == StackOf(t.primary)
    IN /\ \A k, m \in 1..Len(stack) :
            k < m => Position(stack[k].requestId) < Position(stack[m].requestId)
       /\ \A k \in 1..Len(stack) :
            /\ Ran(stack[k].requestId)
            /\ stack[k].newKey = TokenOfCall(stack[k].requestId)
       /\ \A c \in Call :
            Ran(c) => /\ Cardinality(EntriesBy(t.primary, c))
                           = Cardinality(RecordedFor(c, t.name))
                      /\ Cardinality(EntriesBy(t.primary, c)) <= 1
       /\ stack # <<>> =>
            \A k \in 1..Len(t.references) :
              /\ objs[t.references[k]].api_key = stack[Len(stack)].newKey
              /\ objs[t.references[k]].apiKey = stack[Len(stack)].newKey

\* the second call ran its overlay pass and pushed its token on top of the
\* first call's while the first was suspended at readFile or the custom router
C9_Witness ==
  /\ MaxCalls >= 2
  /\ calls[1].pc \in {"readFile", "customRouter"}
  /\ Ran(2)
  /\ \E o \in Obj :
       /\ Len(StackOf(o)) = 2
       /\ StackOf(o)[1].requestId = 1 /\ StackOf(o)[2].requestId = 2
       /\ StackOf(o)[1].newKey # StackOf(o)[2].newKey
       /\ objs[o].api_key = TokenOfCall(2)

\* the credential in effect on o: newKey of the top entry of its stack, else
\* its api_key, else its apiKey, else null
EffectiveKey(o) ==
  IF StackOf(o) # <<>> THEN StackOf(o)[Len(StackOf(o))].newKey
  ELSE IF objs[o].api_key.t \notin {"undefined", "null"} THEN objs[o].api_key
  ELSE IF objs[o].apiKey.t \notin {"undefined", "null"} THEN objs[o].apiKey
  ELSE Null

\* call c arrives in this step
Arrives(c) == calls[c].pc = "idle" /\ calls'[c].pc # "idle"

\* C16: when the bearer token of a call is empty or blank, or equals the
\* credential in effect on a provider, the overlay leaves that provider as it
\* was: credential fields, static snapshot and override stack unchanged, the
\* provider service not notified for it, no override recorded for the caller.
C16_NoOpFrame ==
  [][\A c \in Call : Arrives(c) =>
       \A i \in 1..Len(ProviderTargets) :
         LET t == ProviderTargets[i]
             token == TokenOf(calls'[c].bearerToken)
         IN (token = <<>> \/ EffectiveKey(t.primary) = Str(token)) =>
              /\ objs'[t.primary] = objs[t.primary]
              /\ \A k \in 1..Len(t.references) :
                   /\ objs'[t.references[k]].api_key = objs[t.references[k]].api_key
                   /\ objs'[t.references[k]].apiKey = objs[t.references[k]].apiKey
              /\ \A k \in (Len(service.updates) + 1)..Len(service'.updates) :
                   service'.updates[k].name # t.name
              /\ \A k \in 1..Len(calls'[c].dynamicApiKeyOverrides) :
                   calls'[c].dynamicApiKeyOverrides[k].target.name # t.name]_vars

\* the entries of o's stack that carry the request id
EntriesWithId(o, requestId) ==
  {m \in 1..Len(StackOf(o)) : StackOf(o)[m].requestId = requestId}

\* C17: every {target, requestId} in a request's dynamicApiKeyOverrides
\* identifies exactly one entry on the stack of the target's primary; every
\* entry on a stack was pushed by a call that ran and is recorded in that call's
\* dynamicApiKeyOverrides; no stack holds two entries with one request id, and
\* the ids two calls recorded differ.
C17_OverridesIdentifyEntries ==
  /\ \A c \in Call : \A k \in 1..Len(calls[c].dynamicApiKeyOverrides) :
       LET ov == calls[c].dynamicApiKeyOverrides[k]
       IN /\ Cardinality(EntriesWithId(ov.target.primary, ov.requestId)) = 1
          /\ \A d \in Call \ {c} : \A m \in 1..Len(calls[d].dynamicApiKeyOverrides) :
               calls[d].dynamicApiKeyOverrides[m].requestId # ov.requestId
  /\ \A o \in Obj : \A m \in 1..Len(StackOf(o)) :
       /\ \E c \in Call : \E k \in 1..Len(calls[c].dynamicApiKeyOverrides) :
            /\ calls[c].dynamicApiKeyOverrides[k].target.primary = o
            /\ calls[c].dynamicApiKeyOverrides[k].requestId = StackOf(o)[m].requestId
            /\ StackOf(o)[m].newKey = TokenOfCall(c)
       /\ Cardinality(EntriesWithId(o, StackOf(o)[m].requestId)) = 1

\* two calls with different tokens over two provider targets: each recorded an
\* override for both targets, and each stack holds one entry of either call
C17_Witness ==
  /\ Len(ProviderTargets) = 2
  /\ \E c, d \in Call :
       /\ c # d
       /\ Len(calls[c].dynamicApiKeyOverrides) = 2
       /\ Len(calls[d].dynamicApiKeyOverrides) = 2
       /\ \A i \in 1..2 :
            /\ Cardinality(EntriesWithId(ProviderTargets[i].primary, c)) = 1
            /\ Cardinality(EntriesWithId(ProviderTargets[i].primary, d)) = 1

\* C18: the router never takes an override back: on every step a provider's
\* stack keeps the entries it had, in place, so it never shrinks; the fields of
\* every reference of a target with an override still show the token on top of
\* its stack; and the steps after the overlay pass of a call (a resumption, a
\* decision that raises and gets the default model, a rejection) change no
\* provider object.
C18_NoRollback ==
  [][/\ \A o \in Obj :
          /\ Len(objs'[o].dynamic_api_key_stack.entries) >= Len(StackOf(o))
          /\ SubSeq(objs'[o].dynamic_api_key_stack.entries, 1, Len(StackOf(o)))
               = StackOf(o)
     /\ \A i \in 1..Len(ProviderTargets) :
          LET t == ProviderTargets[i]
              after == objs'[t.primary].dynamic_api_key_stack.entries
          IN StackOf(t.primary) # <<>> =>
               \A k \in 1..Len(t.references) :
                 /\ objs'[t.references[k]].api_key = after[Len(after)].newKey
                 /\ objs'[t.references[k]].apiKey = after[Len(after)].newKey
     /\ (\A c \in Call : ~Arrives(c)) => objs' = objs]_vars

\* a call pushed its token, its routing decision raised and the default model
\* was substituted: the entry is still on the stack and the fields show the
\* token, not the configured credential
C18_Witness ==
  \E c \in Call : \E o \in Obj :
    /\ calls[c].pc = "done"
    /\ MiddlewareFailure \in calls[c].log
    /\ calls[c].body.model = config.Router.default
    /\ EntriesWithId(o, c) # {}
    /\ objs[o].api_key = TokenOfCall(c)
    /\ OriginalKey(o) # TokenOfCall(c)

\* C19: after the overlay pass of a call that carries a non-blank bearer token
\* T, every reference of every provider target reports T under api_key and
\* under apiKey, whether or not the call pushed an entry.
C19_EveryReferenceReportsToken ==
  [][\A c \in Call :
       (Arrives(c) /\ TokenOf(calls'[c].bearerToken) # <<>>) =>
         \A i \in 1..Len(ProviderTargets) :
           \A k \in 1..Len(ProviderTargets[i].references) :
             LET ref == ProviderTargets[i].references[k]
             IN /\ objs'[ref].api_key = Str(TokenOf(calls'[c].bearerToken))
                /\ objs'[ref].apiKey = Str(TokenOf(calls'[c].bearerToken))]_vars

\* the provider objects the configuration lists under a name
ListedObjects ==
  UNION {{ProviderTargets[i].references[k] : k \in 1..Len(ProviderTargets[i].references)} :
           i \in 1..Len(ProviderTargets)}

\* C20: the provider credentials a request without bearer token sees are the
\* credentials the providers were configured with, whatever tokens the
\* requests routed before it or along with it brought.
C20_Noninterference ==
  \A c \in Call :
    (Ran(c) /\ ~Truthy(calls[c].bearerToken)) =>
      \A o \in ListedObjects :
        /\ objs[o].api_key = objs0[o].api_key
        /\ objs[o].apiKey = objs0[o].apiKey

---------------------------------------------------------------------------
\* SpecRouter: one router call from arrival to return, over requests and
\* configurations that reach every rule, hook and failure of the call.

StringMessage(tokens) == [kind |-> "string", tokens |-> tokens, parts |-> <<>>]
PartsMessage(parts) == [kind |-> "parts", tokens |-> 0, parts |-> parts]
Part(type, tokens) == [type |-> type, tokens |-> tokens]

NoDefaultPolicy ==
  RouterPolicy(Undefined, Undefined, Undefined, Undefined, Undefined, 0)

RoutingSystems ==
  {NoSystem, DirectiveSystem, EnvSystem,
   TwoSegments(Str(<<"O", "C">>)),
   TwoSegments(Str(<<"O", "x", "C", "E", "y">>)),
   [kind |-> "string", str |-> <<"O", "x", "C">>, segs |-> <<>>]}

RoutingModels ==
  {Undefined, Str(<<"m">>), Str(<<"H">>),
   Str(<<"a", ",", "g">>), Str(<<"A", ",", "G">>), Str(<<"b", ",", "g">>)}

UserIds ==
  {Undefined, Str(<<>>), Str(<<"u">>),
   Str(<<"u", "_", "s", "_", "x">>),
   Str(<<"u", "_", "s", "_", "x", "_", "s", "_", "y">>),
   Str(<<"_", "s", "_", "s", "_", "x">>),
   Str(<<"u", "_", "s", "_">>)}

MessageLists ==
  {<<>>,
   <<StringMessage(DefaultLongContextThreshold + 1)>>,
   <<PartsMessage(<<Part("text", LastUsageTokenFloor), Part("image", 7),
                    Part("tool_result", 1)>>),
     [kind |-> "other", tokens |-> 7, parts |-> <<>>]>>}

RoutingRequests ==
  {Request(b, Body(model, system, thinking, NoTools)) :
     b \in {Undefined, TokenT, NonString}, model \in RoutingModels,
     system \in RoutingSystems, thinking \in BOOLEAN}
  \cup
  {Request(Undefined,
           [Body(Str(<<"m">>), NoSystem, FALSE, Tools(<<Str(WebSearchPrefix)>>))
              EXCEPT !.user_id = u, !.messages = ms]) :
     u \in UserIds, ms \in MessageLists}

\* the rewrite file's text: plain, or a subagent directive of its own
PromptTexts == {<<"r">>, <<"O", "z", "C">>}

InitRouter ==
  /\ objs = CompoundHeap
  /\ objs0 = objs
  /\ \E policy \in {PlainPolicy, NoDefaultPolicy, FullPolicy(0)} :
     \E rewrite, custom \in BOOLEAN :
       config = Config(<<1, 2>>, NotArray, policy, rewrite, custom)
  /\ usageCache \in {{}, {[sessionId |-> Str(<<"x">>),
                           input_tokens |-> DefaultLongContextThreshold + 1]}}
  /\ calls = [c \in Call |-> IdleCall]
  /\ passOrder = <<>>
  /\ service = NoService
  /\ targetsOut = NoTargets
  /\ sel = NoSelection

NextRouter ==
  \/ \E req \in RoutingRequests : RouterCall(1, req)
  \/ \E prompt \in PromptTexts : ReadFileResolves(1, prompt)
  \/ ReadFileRejects(1)
  \/ \E model \in {Undefined, Str(<<>>), Str(<<"c">>)} : CustomRouterReturns(1, model)
  \/ CustomRouterRaises(1)
  \/ ModelResolved(1)

SpecRouter == InitRouter /\ [][NextRouter]_vars

\* C3: model selection terminates and the model in req.body.model when router
\* returns is a non-empty string, also for a directive enclosing an empty
\* identifier, a configuration without default model, and a decision that raises.
C3_ModelNonEmpty ==
  \A c \in Call :
    calls[c].pc = "done" =>
      /\ calls[c].body.model.t = "string"
      /\ calls[c].body.model.v # <<>>

\* C4: no failure of a collaborator propagates out of a router call: whether
\* the custom router raises, the prompt file cannot be read or the decision
\* raises, the call completes normally.
C4_NoFailurePropagates ==
  \A c \in Call : calls[c].pc # "rejected"

\* what the built-in rules return for call c on the request body it holds as
\* the try block is entered
BuiltIn(c, body) ==
  getUseModel(body, calculateTokenCount(body.messages, body.system, body.tools),
              config, objs, calls'[c].lastMessageUsage)

\* the step takes call c into the try block with this body, the custom router
\* either loaded and awaited or its load failure logged and the built-in
\* rules evaluated
EntersTry(c, body) ==
  \/ /\ calls'[c].pc = "customRouter"
     /\ calls'[c].body = body
     /\ calls'[c].log = calls[c].log
  \/ /\ calls'[c].pc = "getUseModel"
     /\ calls'[c].log = calls[c].log \cup {LoadFailure}
     /\ calls'[c].pending = BuiltIn(c, body)
     /\ calls'[c].body.model = body.model

\* C13: with a custom router configured, the custom router is consulted before
\* the built-in rules; a non-empty model it yields is the final req.body.model
\* and the built-in rules are not evaluated (the system prompt keeps its
\* directive); when loading or invoking it fails the failure is logged, when it
\* fails or yields nothing the call does not raise and the final model is what
\* the built-in rules return for the request.
C13_CustomRouterFirst ==
  [][\A c \in Call :
       config.CUSTOM_ROUTER_PATH =>
         /\ (calls[c].pc = "idle" /\ calls'[c].pc \notin {"idle", "readFile"})
              => EntersTry(c, calls'[c].received)
         /\ (calls[c].pc = "readFile" /\ calls'[c].pc \notin {"readFile", "rejected"})
              => \E prompt \in PromptTexts :
                   EntersTry(c, [calls[c].body EXCEPT
                                   !.system = RewriteSystem(@, prompt)])
         /\ (calls[c].pc = "customRouter" /\ calls'[c].pc # "customRouter") =>
              IF Truthy(calls'[c].model)
              THEN /\ calls'[c].pc = "done"
                   /\ calls'[c].body.model = calls'[c].model
                   /\ calls'[c].body.system = calls[c].body.system
                   /\ calls'[c].pending = calls[c].pending
                   /\ calls'[c].log = calls[c].log
              ELSE /\ calls'[c].pc = "getUseModel"
                   /\ calls'[c].log \in {calls[c].log, calls[c].log \cup {RouterFailure}}
                   /\ calls'[c].pending = BuiltIn(c, calls[c].body)
                   /\ calls'[c].body.model = calls[c].body.model
         /\ (calls[c].pc = "getUseModel" /\ calls'[c].pc # "getUseModel") =>
              /\ calls'[c].pc = "done"
              /\ ~calls[c].pending.threw
                   => /\ calls'[c].body.model = calls[c].pending.model
                      /\ calls'[c].log = calls[c].log]_vars

\* the custom router yielded a model for a request whose system prompt carries
\* a subagent directive: the model is the custom router's, the directive stays
C13_Witness ==
  \E c \in Call :
    /\ config.CUSTOM_ROUTER_PATH
    /\ calls[c].pc = "done"
    /\ calls[c].model = Str(<<"c">>)
    /\ calls[c].body.model = Str(<<"c">>)
    /\ calls[c].received.system = DirectiveSystem
    /\ calls[c].body.system = DirectiveSystem
    /\ Truthy(config.Router.default)

\* the text after the first occurrence of the delimiter in the user id
AfterFirstDelimiter(userId) ==
  SubSeq(userId, IndexFrom(userId, <<"_", "s", "_">>, 1) + 3, Len(userId))

\* C14: for a metadata user id that contains the delimiter '_session_', the
\* session id of the request is everything after the first occurrence of the
\* delimiter, also when the delimiter occurs more than once; when the delimiter
\* is absent no session id is set and the usage lookup is a miss.
C14_SessionAfterFirst ==
  \A c \in Call :
    (Ran(c) /\ calls[c].received.user_id.t = "string") =>
      IF Includes(calls[c].received.user_id.v, <<"_", "s", "_">>)
      THEN calls[c].sessionId = Str(AfterFirstDelimiter(calls[c].received.user_id.v))
      ELSE /\ calls[c].sessionId = Undefined
           /\ ~calls[c].lastMessageUsage.present

====
